---- MODULE Spec2Model ----
(***************************************************************************)
(* pixel-harmony: the genetic melody generator (pixelharmony/generator.py) *)
(* as a state machine.                                                     *)
(*                                                                         *)
(* Scores are Python floats built from 0.5, 0.3, 0.2, -0.1 and integers;   *)
(* they are kept here exactly, in tenths of a point (20 points = 200).     *)
(* The mutation rate is kept in millionths (0.1 = 100000).                 *)
(* The standard library's random source is a seeded stream: every draw     *)
(* advances it by one step, and the seed is an input of the run.           *)
(***************************************************************************)
EXTENDS Integers, Sequences, FiniteSets, TLC

VARIABLES
    pc,                               \* position inside create_melody
    length, population_size, generations, mutation_rate,   \* its arguments
    evaluator,                        \* what self._evaluate_fitness is bound to
    population, new_population,
    gen,                              \* iterations of the for loop started so far
    best_fitness, current_best_fitness,
    generations_without_improvement,
    result, exc,                      \* returned melody / exception that escaped
    call,                             \* the arguments and seed create_melody got
    trail,                            \* what each finished generation left behind
    first,                            \* how an earlier run of the same call went
    rng,                              \* state of the random source
    op, opState, opExc,               \* operator called on its own, and how it ended
    argA, argB, argRate, argPop,
    argK,                             \* its integer argument: size or length
    out, outCut, outRedrawn, outSample, outIdx,
    outScores, outScore,              \* sub-scores and score a scorer returned
    argText,                          \* text handed to GeneratedFitnessFunction
    description, criteria,            \* fields of a GeneratedFitnessFunction
    fgPc,                             \* position of a FitnessGenerator's caller
    client,                           \* FitnessGenerator.client
    response,                         \* what client.messages.create gave back
    fitnessFn,                        \* class of the evaluator handed out
    fgExc,                            \* exception that reached the caller
    plPc,                             \* position of create_player's caller
    testing,                          \* create_player's argument
    devices,                          \* len(devices) in select_audio_device
    entered, answer,                  \* last texts typed at the two prompts
    device_id,                        \* the number parsed by select_audio_device
    toneDevice, toneOk,               \* last test_device call: device and result
    selState, selDevice,              \* how select_audio_device ended, its result
    player, playerDevice,             \* class of the player handed out, its device
    plExc,                            \* exception that left create_player
    prompts                           \* texts read from the user so far

vars == <<pc, length, population_size, generations, mutation_rate, evaluator,
          population, new_population, gen, best_fitness, current_best_fitness,
          generations_without_improvement, result, exc, call, trail, first, rng,
          op, opState, opExc, argA, argB, argRate, argPop, argK,
          out, outCut, outRedrawn, outSample, outIdx, outScores, outScore,
          argText, description, criteria, fgPc, client, response, fitnessFn, fgExc,
          plPc, testing, devices, entered, answer, device_id, toneDevice, toneOk,
          selState, selDevice, player, playerDevice, plExc, prompts>>

runVars == <<pc, length, population_size, generations, mutation_rate, evaluator,
             population, new_population, gen, best_fitness, current_best_fitness,
             generations_without_improvement, result, exc, call, trail, first>>

opVars == <<op, opState, opExc, argA, argB, argRate, argPop, argK,
           out, outCut, outRedrawn, outSample, outIdx>>

scoreVars == <<outScores, outScore>>

fitVars == <<argText, description, criteria, fgPc, client, response, fitnessFn, fgExc>>

playerVars == <<plPc, testing, devices, entered, answer, device_id, toneDevice, toneOk,
               selState, selDevice, player, playerDevice, plExc, prompts>>

(***************************************************************************)
(* Bounds of the model                                                     *)
(***************************************************************************)
MaxLen == 5          \* melody lengths 1..MaxLen in a run
MaxPop == 4          \* population sizes 0..MaxPop in a run
MaxGen == 3          \* generation budgets 0..MaxGen in a short run
MaxOverrun == 2      \* long budgets reach STAGNATION_LIMIT + 1 + MaxOverrun
NumSeeds == 6        \* seeds 0..NumSeeds-1 of the random source in a run
NumLongSeeds == 2    \* seeds of the random source in a long run
NumOpSeeds == 8      \* seeds of the random source for a single operator call
MaxOpLen == 3        \* operator arguments: melodies of 0..MaxOpLen notes
MaxOpPop == 3        \* operator arguments: populations of 0..MaxOpPop melodies
MaxRandomLen == 4    \* lengths 0..MaxRandomLen of a random melody asked for
MaxScoreLen == 5     \* scorer arguments: melodies of 0..MaxScoreLen notes
MaxFitLen == 3       \* evaluator arguments: melodies of 0..MaxFitLen notes
MaxFragments == 2    \* rubric texts: 0..MaxFragments pieces put together
MaxDevices == 2      \* 0..MaxDevices audio devices found
MaxInputs == 4       \* texts the user types during one create_player call

(***************************************************************************)
(* Program constants                                                       *)
(***************************************************************************)
C_MAJOR == <<60, 62, 64, 65, 67, 69, 71, 72>>

COMMON_PROGRESSIONS ==
    << <<60, 64, 67>>, <<67, 71, 74>>, <<65, 69, 72>>,
       <<62, 65, 69>>, <<65, 69, 72>>, <<65, 69, 72>> >>

RHYTHMIC_PATTERNS == << <<2, 1, 1, 2, 2>>, <<3, 3, 2>>, <<2, 2, 1, 1, 2>> >>

scale == C_MAJOR

CHORD_TONES == {60, 64, 67}

START_NOTES == <<60, 67>>            \* tonic or dominant

END_NOTES_MINOR == <<60, 63>>        \* the third taken from C_MINOR

END_NOTES == <<60, 64>>              \* tonic or third

STAGNATION_LIMIT == 100
ADAPT_THRESHOLD == 20
RATE_CEILING == 500000
RATE_FLOOR == 100000
CROSSOVER_SHARE == 7          \* random.random() < 0.7, in tenths
ELITE_COUNT == 2
TOURNAMENT_SIZE == 3
MOTIF_LENGTH == 4
SUBSCORE_CAP == 200           \* min(20, score), in tenths
RATE_ONE == 1000000           \* 1.0 as a rate
SHORTEST_SCORED == 4          \* len(melody) // 4 is 0 below it

(***************************************************************************)
(* Helpers                                                                 *)
(***************************************************************************)
Abs(x) == IF x < 0 THEN -x ELSE x

Min2(a, b) == IF a <= b THEN a ELSE b

Max2(a, b) == IF a >= b THEN a ELSE b

Range(s) == {s[i] : i \in 1..Len(s)}

\* Python slice s[a:b] for 0 <= a, 0 <= b (clamped to the length)
Slice(s, a, b) ==
    LET hi == Min2(b, Len(s))
    IN  IF a >= hi THEN <<>> ELSE SubSeq(s, a + 1, hi)

RECURSIVE SumOver(_, _)
\* sum of f[i] for i in the finite set S of the domain of f
SumOver(f, S) ==
    IF S = {} THEN 0
    ELSE LET i == CHOOSE j \in S : TRUE
         IN  f[i] + SumOver(f, S \ {i})

(***************************************************************************)
(* The random source (import random).  One stream per seed; random(),      *)
(* choice, randint and sample each consume draws from it.                  *)
(***************************************************************************)
RngStep(r) == (r * 1229 + 7) % 4096

\* _randbelow(n), from the state after the step: 0 .. n-1
RandBelow(r, n) == ((r \div 16) * n) \div 256

\* random.random() in sixteenths: 0 .. 15 stands for 0/16 .. 15/16
RandUnit(r) == r \div 256

\* random.random() < p, p in tenths (0.7 is 7)
RandomLessTenths(r, p) == RandUnit(r) * 10 < p * 16

\* the comparison with <= in place of <
RandomAtMostRate(r, rate) == RandUnit(r) * RATE_ONE <= rate * 16

\* random.random() < rate, rate in millionths
RandomLessRate(r, rate) == RandUnit(r) * RATE_ONE < rate * 16

(***************************************************************************)
(* The multi-criterion scorer, in tenths of a point                        *)
(***************************************************************************)
\* number of i in range(1, len-1) with a sign change of the differences
DirectionChanges(melody) ==
    Cardinality({i \in 2..(Len(melody) - 1) :
        (melody[i] - melody[i - 1]) * (melody[i + 1] - melody[i]) < 0})

IntervalPoints(interval) ==
    IF interval <= 2 THEN 5
    ELSE IF interval <= 4 THEN 3
    ELSE IF interval <= 7 THEN 2
    ELSE -1

\* _evaluate_contour divides by len(melody) // 4
ContourRaises(melody) == Len(melody) \div 4 = 0

\* exact while len // 4 divides 100 * |changes - optimal| (len < 12)
EvaluateContour(melody) ==
    LET optimal_changes == Len(melody) \div 4
        shape == 100 - (100 * Abs(DirectionChanges(melody) - optimal_changes))
                           \div optimal_changes
        steps == SumOver([i \in 1..(Len(melody) - 1) |->
                             IntervalPoints(Abs(melody[i] - melody[i + 1]))],
                         1..(Len(melody) - 1))
    IN  Min2(SUBSCORE_CAP, shape + steps)

MatchesRhythmPattern(subsequence, pattern) ==
    /\ Len(subsequence) = Len(pattern)
    /\ \A i \in 1..(Len(pattern) - 1) :
           Abs(subsequence[i + 1] - subsequence[i]) = pattern[i]

EvaluateRhythm(melody) ==
    LET n == Len(melody)
        matches == {pi \in (1..Len(RHYTHMIC_PATTERNS)) \X (0..n) :
                       /\ pi[2] < n - Len(RHYTHMIC_PATTERNS[pi[1]])
                       /\ MatchesRhythmPattern(
                              Slice(melody, pi[2], pi[2] + Len(RHYTHMIC_PATTERNS[pi[1]])),
                              RHYTHMIC_PATTERNS[pi[1]])}
        \* 0-based odd i with i < n - 1 is the 1-based even k with k < n
        syncopated == {k \in 2..(n - 1) :
                          /\ k % 2 = 0
                          /\ melody[k] # melody[k - 1]
                          /\ melody[k] # melody[k + 1]}
    IN  Min2(SUBSCORE_CAP, 50 * Cardinality(matches) + 20 * Cardinality(syncopated))

IsGoodCadence(notes) ==
    notes[Len(notes)] = 60 /\ notes[Len(notes) - 1] \in {67, 71}

EvaluateHarmony(melody) ==
    LET n == Len(melody)
        hits == {ic \in (1..n) \X (1..Len(COMMON_PROGRESSIONS)) :
                    melody[ic[1]] % 12 \in
                        {note % 12 : note \in Range(COMMON_PROGRESSIONS[ic[2]])}}
        cadence == IF n >= 4 /\ IsGoodCadence(Slice(melody, n - 4, n))
                   THEN 100 ELSE 0
    IN  Min2(SUBSCORE_CAP, 10 * Cardinality(hits) + cadence)

SimilarMotifs(motif1, motif2) ==
    /\ Len(motif1) = Len(motif2)
    /\ [i \in 1..(Len(motif1) - 1) |-> motif1[i + 1] - motif1[i]]
         = [i \in 1..(Len(motif2) - 1) |-> motif2[i + 1] - motif2[i]]

EvaluatePhrasing(melody) ==
    LET n == Len(melody)
        balanced == IF Abs((n \div 2) - (n - (n \div 2))) <= 1 THEN 50 ELSE 0
        \* i in range(n - 4), j in range(i + 4, n - 4), both 0-based
        repeats == {ij \in (0..n) \X (0..n) :
                       /\ ij[1] < n - MOTIF_LENGTH
                       /\ ij[2] >= ij[1] + MOTIF_LENGTH
                       /\ ij[2] < n - MOTIF_LENGTH
                       /\ SimilarMotifs(Slice(melody, ij[1], ij[1] + MOTIF_LENGTH),
                                        Slice(melody, ij[2], ij[2] + MOTIF_LENGTH))}
    IN  IF n >= 8
        THEN Min2(SUBSCORE_CAP, balanced + 30 * Cardinality(repeats))
        ELSE 0

EvaluateTensionResolution(melody) ==
    LET n == Len(melody)
        middle_start == n \div 4
        middle_end == (3 * n) \div 4
        tense == {i \in (middle_start + 1)..middle_end : melody[i] \notin CHORD_TONES}
        resolved == IF melody[n] \in CHORD_TONES THEN 100 ELSE 0
    IN  IF n >= 4
        THEN Min2(SUBSCORE_CAP, 10 * Cardinality(tense) + resolved)
        ELSE 0

EvaluateFitness(melody) ==
    EvaluateContour(melody) + EvaluateRhythm(melody) + EvaluateHarmony(melody)
        + EvaluatePhrasing(melody) + EvaluateTensionResolution(melody)

\* self._evaluate_fitness as the run sees it: the multi-criterion scorer, or
\* a scorer that gives every melody the same score
Fitness(ev, melody) == IF ev = "multi" THEN EvaluateFitness(melody) ELSE 0

FitnessRaises(ev, melody) == ev = "multi" /\ ContourRaises(melody)

\* what the five sub-scorers return, in the order _evaluate_fitness calls them
SubScores(melody) ==
    <<EvaluateContour(melody), EvaluateRhythm(melody), EvaluateHarmony(melody),
      EvaluatePhrasing(melody), EvaluateTensionResolution(melody)>>

(***************************************************************************)
(* Ranking                                                                 *)
(***************************************************************************)
\* x put behind every member that scores at least as much: a stable
\* descending order, as sorted(..., reverse=True) keeps it
InsertRanked(ranked, x, ev) ==
    LET ahead == {i \in 1..Len(ranked) : Fitness(ev, ranked[i]) >= Fitness(ev, x)}
        k == Cardinality(ahead)
    IN  SubSeq(ranked, 1, k) \o <<x>> \o SubSeq(ranked, k + 1, Len(ranked))

RECURSIVE RankFrom(_, _, _)
RankFrom(ranked, rest, ev) ==
    IF rest = <<>> THEN ranked
    ELSE RankFrom(InsertRanked(ranked, Head(rest), ev), Tail(rest), ev)

\* x put ahead of the members it ties with
InsertAheadOfTies(ranked, x, ev) ==
    LET ahead == {i \in 1..Len(ranked) : Fitness(ev, ranked[i]) > Fitness(ev, x)}
        k == Cardinality(ahead)
    IN  SubSeq(ranked, 1, k) \o <<x>> \o SubSeq(ranked, k + 1, Len(ranked))

RECURSIVE RankTiesReversedFrom(_, _, _)
RankTiesReversedFrom(ranked, rest, ev) ==
    IF rest = <<>> THEN ranked
    ELSE RankTiesReversedFrom(InsertAheadOfTies(ranked, Head(rest), ev), Tail(rest), ev)

\* an ascending sort turned round: descending, ties in reverse order
SortedTiesReversed(pop, ev) == RankTiesReversedFrom(<<>>, pop, ev)

\* the ranking with reverse=True left out: lowest score first
SortedAscending(pop, ev) ==
    LET ranked == RankFrom(<<>>, pop, ev)
    IN  [i \in 1..Len(ranked) |-> ranked[Len(ranked) + 1 - i]]

\* sorted(population, key=self._evaluate_fitness, reverse=True)
SortedByFitness(pop, ev) == RankFrom(<<>>, pop, ev)

\* min in place of max: position of the first member with the lowest score
ArgMin(pop, ev) ==
    CHOOSE i \in 1..Len(pop) :
        /\ \A j \in 1..Len(pop) : Fitness(ev, pop[j]) >= Fitness(ev, pop[i])
        /\ \A j \in 1..(i - 1) : Fitness(ev, pop[j]) > Fitness(ev, pop[i])

\* position of the first member with the greatest score: max(seq, key=...)
ArgMax(pop, ev) ==
    CHOOSE i \in 1..Len(pop) :
        /\ \A j \in 1..Len(pop) : Fitness(ev, pop[j]) <= Fitness(ev, pop[i])
        /\ \A j \in 1..(i - 1) : Fitness(ev, pop[j]) < Fitness(ev, pop[i])

AnyRaises(pop, ev) == \E i \in 1..Len(pop) : FitnessRaises(ev, pop[i])

(***************************************************************************)
(* Genetic operators.  Each takes the state of the random source and       *)
(* returns it advanced by the draws it made.                               *)
(***************************************************************************)
\* random.choice(seq) for a non-empty seq
Choice(seq, r) ==
    LET r1 == RngStep(r)
    IN  [v |-> seq[RandBelow(r1, Len(seq)) + 1], rng |-> r1]

RECURSIVE RandomNotes(_, _, _)
\* [random.choice(self.scale) for _ in range(k)], appended to acc
RandomNotes(acc, k, r) ==
    IF k <= 0 THEN [m |-> acc, rng |-> r]
    ELSE LET c == Choice(scale, r)
         IN  RandomNotes(Append(acc, c.v), k - 1, c.rng)

RECURSIVE PopulationFrom(_, _, _, _)
PopulationFrom(acc, len, k, r) ==
    IF k <= 0 THEN [pop |-> acc, rng |-> r]
    ELSE LET row == RandomNotes(<<>>, len, r)
         IN  PopulationFrom(Append(acc, row.m), len, k - 1, row.rng)

InitializePopulation(len, size, r) == PopulationFrom(<<>>, len, size, r)

\* the branches taken the other way round: the last position first
NotePoolEndFirst(i, len) ==
    IF i = len - 1 THEN END_NOTES
    ELSE IF i = 0 THEN START_NOTES
    ELSE scale

\* the notes position i (0-based) of a random melody is drawn from
NotePool(i, len) ==
    IF i = 0 THEN START_NOTES
    ELSE IF i = len - 1 THEN END_NOTES
    ELSE scale

RECURSIVE RandomMelodyFrom(_, _, _, _)
\* position i (0-based) of _create_random_melody's loop onwards
RandomMelodyFrom(acc, i, len, r) ==
    IF i >= len THEN [m |-> acc, rng |-> r]
    ELSE LET c == Choice(NotePool(i, len), r)
         IN  RandomMelodyFrom(Append(acc, c.v), i + 1, len, c.rng)

CreateRandomMelody(len, r) == RandomMelodyFrom(<<>>, 0, len, r)

\* random.randint(1, len(parent1) - 1) raises ValueError on an empty range
CrossoverRaises(parent1, parent2) == Len(parent1) - 1 < 1

\* the cut drawn from 0 .. len - 1
CrossoverPointFromZero(parent1, r) == RandBelow(RngStep(r), Len(parent1))

CrossoverPoint(parent1, r) == 1 + RandBelow(RngStep(r), Len(parent1) - 1)

\* the second slice taken one note early
CrossoverOverlapping(parent1, parent2, r) ==
    LET crossover_point == CrossoverPoint(parent1, r)
    IN  [child |-> Slice(parent1, 0, crossover_point)
                     \o Slice(parent2, crossover_point - 1, Len(parent2)),
         cut |-> crossover_point,
         rng |-> RngStep(r)]

Crossover(parent1, parent2, r) ==
    LET crossover_point == CrossoverPoint(parent1, r)
    IN  [child |-> Slice(parent1, 0, crossover_point)
                     \o Slice(parent2, crossover_point, Len(parent2)),
         cut |-> crossover_point,
         rng |-> RngStep(r)]

\* a note drawn from the whole octave 60..72 instead of the scale
MutatedNoteChromatic(r) ==
    LET r1 == RngStep(r)
    IN  [v |-> 60 + RandBelow(r1, 13), rng |-> r1]

\* the note _mutate puts in a mutated position: random.choice(self.scale)
MutatedNote(r) == Choice(scale, r)

RECURSIVE MutateFrom(_, _, _, _, _)
\* the comprehension of _mutate from position i (1-based) onwards; redrawn
\* collects the positions whose note was drawn afresh
MutateFrom(acc, redrawn, melody, rate, r) ==
    LET i == Len(acc) + 1
        r1 == RngStep(r)
    IN  IF i > Len(melody) THEN [m |-> acc, redrawn |-> redrawn, rng |-> r]
        ELSE IF RandomLessRate(r1, rate)
             THEN LET c == MutatedNote(r1)
                  IN  MutateFrom(Append(acc, c.v), redrawn \cup {i}, melody, rate, c.rng)
             ELSE MutateFrom(Append(acc, melody[i]), redrawn, melody, rate, r1)

Mutate(melody, rate, r) == MutateFrom(<<>>, {}, melody, rate, r)

RECURSIVE SampleFrom(_, _, _, _)
\* random.sample on a pool of positions: result[i] = pool[j]; pool[j] = pool[n-i-1]
SampleFrom(picked, pool, k, r) ==
    IF Len(picked) >= k THEN [sample |-> picked, rng |-> r]
    ELSE LET n == Len(pool)
             i == Len(picked)
             r1 == RngStep(r)
             j == RandBelow(r1, n - i) + 1
         IN  SampleFrom(Append(picked, pool[j]),
                        [pool EXCEPT ![j] = pool[n - i]], k, r1)

\* random.sample raises ValueError unless 0 <= k <= len(population)
SampleRaises(pop, k) == k < 0 \/ k > Len(pop)

\* positions of pop drawn by random.sample(population, tournament_size)
Sample(pop, k, r) == SampleFrom(<<>>, [i \in 1..Len(pop) |-> i], k, r)

\* a sample size cut down to what the population can give
SampleSizeClamped(pop, k) == Max2(1, Min2(k, Len(pop)))

\* the size _tournament_select hands to random.sample: tournament_size itself
SampleSize(pop, k) == k

\* the exception _tournament_select ends in, or "none"
TournamentExc(pop, k, ev, r) ==
    LET size == SampleSize(pop, k)
    IN  IF SampleRaises(pop, size) THEN "ValueError"
        ELSE IF size = 0 THEN "ValueError"       \* max() of an empty list
        ELSE IF \E i \in 1..size :
                    FitnessRaises(ev, pop[Sample(pop, size, r).sample[i]])
             THEN "ZeroDivisionError"
        ELSE "none"

\* position in pop of the member _tournament_select returns
TournamentSelect(pop, k, ev, r) ==
    LET size == SampleSize(pop, k)
        s == Sample(pop, size, r)
        tournament == [i \in 1..size |-> pop[s.sample[i]]]
    IN  [idx |-> s.sample[ArgMax(tournament, ev)], sample |-> s.sample, rng |-> s.rng]

(***************************************************************************)
(* Generator.create_melody, one action per stretch of its body             *)
(***************************************************************************)
NEG_INF == <<>>                       \* float("-inf"); a score v is <<v>>

\* the comparison with >= in place of >
ExceedsOrEqualsBest(score, best) == best = NEG_INF \/ score >= best[1]

\* current_best_fitness > best_fitness
ExceedsBest(score, best) == best = NEG_INF \/ score > best[1]

\* a variant that already stops when the counter reaches the limit
EarlyStopAtLimit(stagnant) == stagnant >= STAGNATION_LIMIT

\* generations_without_improvement > 100
EarlyStop(stagnant) == stagnant > STAGNATION_LIMIT

\* the two factors without the ceiling and the floor
AdaptedRateUnclamped(rate, stagnant) ==
    IF stagnant > ADAPT_THRESHOLD THEN (rate * 11) \div 10 ELSE (rate * 9) \div 10

\* min(0.5, rate * 1.1) and max(0.1, rate * 0.9)
AdaptedRate(rate, stagnant) ==
    IF stagnant > ADAPT_THRESHOLD
    THEN Min2(RATE_CEILING, (rate * 11) \div 10)
    ELSE Max2(RATE_FLOOR, (rate * 9) \div 10)

Raise(e) ==
    /\ pc' = "raised"
    /\ exc' = e
    /\ UNCHANGED <<length, population_size, generations, mutation_rate, evaluator,
                   population, new_population, gen, best_fitness,
                   current_best_fitness, generations_without_improvement,
                   result, rng>>

\* no member carried over
EliteDropped(ranked) == <<>>

\* only the single best member carried over
EliteBestOnly(ranked) == Slice(ranked, 0, 1)

\* new_population = population[:2]
Elite(ranked) == Slice(ranked, 0, ELITE_COUNT)

\* lines 215-220: the population is drawn, the trackers are reset
CreateMelody ==
    /\ pc = "called"
    /\ LET init == InitializePopulation(length, population_size, rng)
       IN  /\ population' = init.pop
           /\ rng' = init.rng
    /\ generations_without_improvement' = 0
    /\ best_fitness' = NEG_INF
    /\ pc' = "loop"
    /\ UNCHANGED <<length, population_size, generations, mutation_rate, evaluator,
                   new_population, gen, current_best_fitness, result, exc>>
    /\ UNCHANGED <<opVars, scoreVars, fitVars, playerVars>>
    /\ UNCHANGED <<call, trail, first>>

\* lines 222-241: rank, track improvement, adapt the rate, keep the best two
Rank ==
    /\ pc = "loop"
    /\ gen < generations
    /\ UNCHANGED <<opVars, scoreVars, fitVars, playerVars>>
    /\ UNCHANGED <<call, trail, first>>
    /\ IF AnyRaises(population, evaluator) THEN Raise("ZeroDivisionError")
       ELSE IF population = <<>> THEN Raise("IndexError")
       ELSE LET ranked == SortedByFitness(population, evaluator)
                top == Fitness(evaluator, ranked[1])
                stagnant == IF ExceedsBest(top, best_fitness) THEN 0
                            ELSE generations_without_improvement + 1
            IN  /\ population' = ranked
                /\ current_best_fitness' = top
                /\ best_fitness' = IF ExceedsBest(top, best_fitness)
                                   THEN <<top>> ELSE best_fitness
                /\ generations_without_improvement' = stagnant
                /\ mutation_rate' = AdaptedRate(mutation_rate, stagnant)
                /\ new_population' = Elite(ranked)
                /\ pc' = "breed"
                /\ UNCHANGED <<length, population_size, generations, evaluator,
                               gen, result, exc, rng>>

\* the draw of line 244
BreedDraw == RngStep(rng)

\* lines 243-252, the crossover branch: two tournaments, a crossover, a mutation
BreedCrossover ==
    /\ pc = "breed"
    /\ Len(new_population) < population_size
    /\ RandomLessTenths(BreedDraw, CROSSOVER_SHARE)
    /\ UNCHANGED <<opVars, scoreVars, fitVars, playerVars>>
    /\ UNCHANGED <<call, trail, first>>
    /\ LET e1 == TournamentExc(population, TOURNAMENT_SIZE, evaluator, BreedDraw)
       IN  IF e1 # "none" THEN Raise(e1)
           ELSE LET s1 == TournamentSelect(population, TOURNAMENT_SIZE, evaluator, BreedDraw)
                    e2 == TournamentExc(population, TOURNAMENT_SIZE, evaluator, s1.rng)
                IN  IF e2 # "none" THEN Raise(e2)
                    ELSE LET s2 == TournamentSelect(population, TOURNAMENT_SIZE,
                                                    evaluator, s1.rng)
                             parent1 == population[s1.idx]
                             parent2 == population[s2.idx]
                         IN  IF CrossoverRaises(parent1, parent2) THEN Raise("ValueError")
                             ELSE LET x == Crossover(parent1, parent2, s2.rng)
                                      m == Mutate(x.child, mutation_rate, x.rng)
                                  IN  /\ new_population' = Append(new_population, m.m)
                                      /\ rng' = m.rng
                                      /\ UNCHANGED <<pc, length, population_size,
                                             generations, mutation_rate, evaluator,
                                             population, gen, best_fitness,
                                             current_best_fitness,
                                             generations_without_improvement,
                                             result, exc>>

\* lines 243-252, the injection branch: a fresh random melody, mutated
BreedRandom ==
    /\ pc = "breed"
    /\ Len(new_population) < population_size
    /\ ~RandomLessTenths(BreedDraw, CROSSOVER_SHARE)
    /\ LET fresh == CreateRandomMelody(length, BreedDraw)
           m == Mutate(fresh.m, mutation_rate, fresh.rng)
       IN  /\ new_population' = Append(new_population, m.m)
           /\ rng' = m.rng
    /\ UNCHANGED <<pc, length, population_size, generations, mutation_rate,
                   evaluator, population, gen, best_fitness, current_best_fitness,
                   generations_without_improvement, result, exc>>
    /\ UNCHANGED <<opVars, scoreVars, fitVars, playerVars>>
    /\ UNCHANGED <<call, trail, first>>

\* what a generation leaves behind: the population it built and the trackers
Snapshot(pop) ==
    [population |-> pop, best_fitness |-> best_fitness,
     generations_without_improvement |-> generations_without_improvement,
     mutation_rate |-> mutation_rate]

\* lines 254-262: the new population replaces the old; early stop or next round
EndGeneration ==
    /\ pc = "breed"
    /\ Len(new_population) >= population_size
    /\ population' = new_population
    /\ gen' = gen + 1
    /\ pc' = IF EarlyStop(generations_without_improvement) THEN "stopped" ELSE "loop"
    /\ UNCHANGED <<length, population_size, generations, mutation_rate, evaluator,
                   new_population, best_fitness, current_best_fitness,
                   generations_without_improvement, result, exc, rng>>
    /\ UNCHANGED <<opVars, scoreVars, fitVars, playerVars>>
    /\ trail' = Append(trail, Snapshot(new_population))
    /\ UNCHANGED <<call, first>>

\* line 264: max(population, key=self._evaluate_fitness)
Return ==
    /\ \/ pc = "loop" /\ gen >= generations
       \/ pc = "stopped"
    /\ UNCHANGED <<opVars, scoreVars, fitVars, playerVars>>
    /\ UNCHANGED <<call, trail, first>>
    /\ IF population = <<>> THEN Raise("ValueError")
       ELSE IF AnyRaises(population, evaluator) THEN Raise("ZeroDivisionError")
       ELSE /\ result' = population[ArgMax(population, evaluator)]
            /\ pc' = "done"
            /\ UNCHANGED <<length, population_size, generations, mutation_rate,
                           evaluator, population, new_population, gen, best_fitness,
                           current_best_fitness, generations_without_improvement,
                           exc, rng>>

(***************************************************************************)
(* pixelharmony/fitness_generator.py: the default and the generated        *)
(* evaluator, in hundredths of a point.  A text is the sequence of its     *)
(* characters.                                                             *)
(***************************************************************************)
LOWER_OF ==
    [A |-> "a", B |-> "b", C |-> "c", D |-> "d", E |-> "e", F |-> "f",
     G |-> "g", H |-> "h", I |-> "i", J |-> "j", K |-> "k", L |-> "l",
     M |-> "m", N |-> "n", O |-> "o", P |-> "p", Q |-> "q", R |-> "r",
     S |-> "s", T |-> "t", U |-> "u", V |-> "v", W |-> "w", X |-> "x",
     Y |-> "y", Z |-> "z"]

\* a text taken as it is written, capitals kept
SameCase(text) == text

\* str.lower()
Lower(text) ==
    [i \in 1..Len(text) |->
        IF text[i] \in DOMAIN LOWER_OF THEN LOWER_OF[text[i]] ELSE text[i]]

\* key in text
Contains(text, key) ==
    \E i \in 1..(Len(text) - Len(key) + 1) :
        \A j \in 1..Len(key) : text[i + j - 1] = key[j]

\* "high range"
KEY_HIGH_RANGE ==
    <<"h", "i", "g", "h", " ", "r", "a", "n", "g", "e">>

\* "low range"
KEY_LOW_RANGE ==
    <<"l", "o", "w", " ", "r", "a", "n", "g", "e">>

\* "strong emphasis on stepwise motion"
KEY_STEPWISE ==
    <<"s", "t", "r", "o", "n", "g", " ", "e", "m", "p", "h", "a", "s", "i",
      "s", " ", "o", "n", " ", "s", "t", "e", "p", "w", "i", "s", "e", " ",
      "m", "o", "t", "i", "o", "n">>

\* "strong cadences"
KEY_CADENCES ==
    <<"s", "t", "r", "o", "n", "g", " ", "c", "a", "d", "e", "n", "c", "e",
      "s">>

\* "longer phrases"
KEY_LONGER ==
    <<"l", "o", "n", "g", "e", "r", " ", "p", "h", "r", "a", "s", "e", "s">>

\* "short motifs"
KEY_SHORT ==
    <<"s", "h", "o", "r", "t", " ", "m", "o", "t", "i", "f", "s">>

HIGH_RANGE == <<67, 79>>

LOW_RANGE == <<48, 60>>

DEFAULT_CRITERIA ==
    [preferred_range |-> <<60, 72>>, stepwise_motion_weight |-> 50,
     cadence_weight |-> 200, phrase_length |-> 4,
     prefer_consonant_intervals |-> TRUE]

\* GeneratedFitnessFunction._parse_prompt_response with self.description = text
ParsePromptResponse(text) ==
    LET desc_lower == Lower(text)
    IN  [preferred_range |->
             IF Contains(desc_lower, KEY_HIGH_RANGE) THEN HIGH_RANGE
             ELSE IF Contains(desc_lower, KEY_LOW_RANGE) THEN LOW_RANGE
             ELSE DEFAULT_CRITERIA.preferred_range,
         stepwise_motion_weight |->
             IF Contains(desc_lower, KEY_STEPWISE) THEN 80
             ELSE DEFAULT_CRITERIA.stepwise_motion_weight,
         cadence_weight |->
             IF Contains(desc_lower, KEY_CADENCES) THEN 300
             ELSE DEFAULT_CRITERIA.cadence_weight,
         phrase_length |->
             IF Contains(desc_lower, KEY_LONGER) THEN 8
             ELSE IF Contains(desc_lower, KEY_SHORT) THEN 2
             ELSE DEFAULT_CRITERIA.phrase_length,
         prefer_consonant_intervals |-> DEFAULT_CRITERIA.prefer_consonant_intervals]

MaxOf(s) == CHOOSE x \in Range(s) : \A y \in Range(s) : y <= x

\* GeneratedFitnessFunction._is_good_phrase
IsGoodPhrase(phrase) ==
    IF phrase = <<>> THEN FALSE
    ELSE LET has_arch == MaxOf(phrase) # phrase[1] /\ MaxOf(phrase) # phrase[Len(phrase)]
             intervals == [i \in 1..(Len(phrase) - 1) |-> Abs(phrase[i + 1] - phrase[i])]
             has_pattern == Cardinality(Range(intervals)) < Len(intervals)
         IN  has_arch \/ has_pattern

\* GeneratedFitnessFunction.fitness with self.criteria = rubric
GeneratedFitness(rubric, melody) ==
    IF melody = <<>> THEN 0
    ELSE LET n == Len(melody)
             min_range == rubric.preferred_range[1]
             max_range == rubric.preferred_range[2]
             weight == rubric.stepwise_motion_weight
             phrase_length == rubric.phrase_length
             in_range == Cardinality({i \in 1..n :
                             min_range <= melody[i] /\ melody[i] <= max_range})
             motion == SumOver([i \in 1..(n - 1) |->
                           LET interval == Abs(melody[i] - melody[i + 1])
                           IN  IF interval <= 2 THEN weight
                               ELSE IF interval <= 4 THEN weight \div 2
                               ELSE 0],
                       1..(n - 1))
             phrases == Cardinality({k \in 0..(n \div phrase_length) :
                            /\ k * phrase_length + phrase_length <= n
                            /\ IsGoodPhrase(Slice(melody, k * phrase_length,
                                                  k * phrase_length + phrase_length))})
             cadence == IF n >= 2 /\ Abs(melody[n - 1] - melody[n]) \in {1, 2, 5}
                        THEN rubric.cadence_weight ELSE 0
         IN  100 * in_range + motion + 100 * phrases + cadence

\* DefaultFitnessFunction.fitness
DefaultFitness(melody) ==
    IF melody = <<>> THEN 0
    ELSE LET n == Len(melody)
             in_range == Cardinality({i \in 1..n : 60 <= melody[i] /\ melody[i] <= 72})
             motion == SumOver([i \in 2..n |->
                           LET interval == Abs(melody[i] - melody[i - 1])
                           IN  IF interval <= 2 THEN 50
                               ELSE IF interval <= 4 THEN 30
                               ELSE 0],
                       2..n)
             start == IF melody[1] \in {60, 67} THEN 200 ELSE 0
             finish == IF melody[n] = 60 THEN 200 ELSE 0
         IN  100 * in_range + motion + start + finish

(***************************************************************************)
(* The operators called on their own                                       *)
(***************************************************************************)
\* _crossover(argA, argB)
CallCrossover ==
    /\ op = "crossover" /\ opState = "pending"
    /\ IF CrossoverRaises(argA, argB)
       THEN /\ opState' = "raised"
            /\ opExc' = "ValueError"
            /\ UNCHANGED <<out, outCut, rng>>
       ELSE LET x == Crossover(argA, argB, rng)
            IN  /\ opState' = "returned"
                /\ out' = x.child
                /\ outCut' = x.cut
                /\ rng' = x.rng
                /\ UNCHANGED opExc
    /\ UNCHANGED <<op, argA, argB, argRate, argPop, argK, outRedrawn, outSample, outIdx>>
    /\ UNCHANGED <<runVars, playerVars, scoreVars, fitVars>>

\* _mutate(argA, argRate)
CallMutate ==
    /\ op = "mutate" /\ opState = "pending"
    /\ LET m == Mutate(argA, argRate, rng)
       IN  /\ out' = m.m
           /\ outRedrawn' = m.redrawn
           /\ rng' = m.rng
    /\ opState' = "returned"
    /\ UNCHANGED <<op, opExc, argA, argB, argRate, argPop, argK, outCut, outSample, outIdx>>
    /\ UNCHANGED <<runVars, playerVars, scoreVars, fitVars>>

\* _tournament_select(argPop, argK)
CallTournamentSelect ==
    /\ op = "select" /\ opState = "pending"
    /\ LET e == TournamentExc(argPop, argK, "multi", rng)
       IN  IF e # "none"
           THEN /\ opState' = "raised"
                /\ opExc' = e
                /\ UNCHANGED <<out, outSample, outIdx, rng>>
           ELSE LET s == TournamentSelect(argPop, argK, "multi", rng)
                IN  /\ opState' = "returned"
                    /\ out' = argPop[s.idx]
                    /\ outIdx' = s.idx
                    /\ outSample' = s.sample
                    /\ rng' = s.rng
                    /\ UNCHANGED opExc
    /\ UNCHANGED <<op, argA, argB, argRate, argPop, argK, outCut, outRedrawn>>
    /\ UNCHANGED <<runVars, playerVars, scoreVars, fitVars>>

\* _create_random_melody(argK)
CallCreateRandomMelody ==
    /\ op = "random_melody" /\ opState = "pending"
    /\ LET m == CreateRandomMelody(argK, rng)
       IN  /\ out' = m.m
           /\ rng' = m.rng
    /\ opState' = "returned"
    /\ UNCHANGED <<op, opExc, argA, argB, argRate, argPop, argK,
                   outCut, outRedrawn, outSample, outIdx>>
    /\ UNCHANGED <<runVars, playerVars, scoreVars, fitVars>>

\* _evaluate_fitness(argA); the first sub-scorer called is _evaluate_contour
CallEvaluateFitness ==
    /\ op = "evaluate" /\ opState = "pending"
    /\ IF ContourRaises(argA)
       THEN /\ opState' = "raised"
            /\ opExc' = "ZeroDivisionError"
            /\ UNCHANGED scoreVars
       ELSE /\ opState' = "returned"
            /\ outScores' = SubScores(argA)
            /\ outScore' = EvaluateFitness(argA)
            /\ UNCHANGED opExc
    /\ UNCHANGED <<op, argA, argB, argRate, argPop, argK,
                   out, outCut, outRedrawn, outSample, outIdx, rng>>
    /\ UNCHANGED <<runVars, playerVars, fitVars>>

\* DefaultFitnessFunction().fitness(argA)
CallDefaultFitness ==
    /\ op = "default_fitness" /\ opState = "pending"
    /\ opState' = "returned"
    /\ fitnessFn' = "DefaultFitnessFunction"
    /\ outScore' = DefaultFitness(argA)
    /\ UNCHANGED <<op, opExc, argA, argB, argRate, argPop, argK,
                   out, outCut, outRedrawn, outSample, outIdx, outScores, rng>>
    /\ UNCHANGED <<argText, description, criteria, fgPc, client, response, fgExc>>
    /\ UNCHANGED <<runVars, playerVars>>

\* GeneratedFitnessFunction(argText): the text is kept and parsed
ConstructGenerated ==
    /\ op = "generated_fitness" /\ opState = "pending"
    /\ opState' = "constructed"
    /\ fitnessFn' = "GeneratedFitnessFunction"
    /\ description' = argText
    /\ criteria' = ParsePromptResponse(argText)
    /\ UNCHANGED <<op, opExc, argA, argB, argRate, argPop, argK,
                   out, outCut, outRedrawn, outSample, outIdx, rng>>
    /\ UNCHANGED <<argText, fgPc, client, response, fgExc>>
    /\ UNCHANGED <<runVars, playerVars, scoreVars>>

\* .fitness(argA) of the evaluator constructed before
CallGeneratedFitness ==
    /\ op = "generated_fitness" /\ opState = "constructed"
    /\ opState' = "returned"
    /\ outScore' = GeneratedFitness(criteria, argA)
    /\ UNCHANGED <<op, opExc, argA, argB, argRate, argPop, argK,
                   out, outCut, outRedrawn, outSample, outIdx, outScores, rng>>
    /\ UNCHANGED <<runVars, playerVars, fitVars>>

(***************************************************************************)
(* Inputs and specifications                                               *)
(***************************************************************************)
\* base rates a caller supplies: below the floor, the default, above the ceiling
BaseRates == {RATE_FLOOR \div 2, RATE_FLOOR, RATE_ONE}

Evaluators == {"multi", "const"}

ShortRuns ==
    [length : 1..MaxLen, population_size : 0..MaxPop, generations : 0..MaxGen,
     mutation_rate : BaseRates, evaluator : Evaluators, seed : 0..(NumSeeds - 1)]

\* budgets around the early stop; the shortest melodies the scorer accepts
LongRuns ==
    [length : {SHORTEST_SCORED}, population_size : 1..(ELITE_COUNT + 1),
     generations : STAGNATION_LIMIT..(STAGNATION_LIMIT + 1 + MaxOverrun),
     mutation_rate : {RATE_FLOOR}, evaluator : Evaluators, seed : 0..(NumLongSeeds - 1)]

NoOp ==
    /\ op = "none" /\ opState = "none" /\ opExc = "none"
    /\ argA = <<>> /\ argB = <<>> /\ argRate = 0 /\ argPop = <<>> /\ argK = 0
    /\ out = <<>> /\ outCut = 0 /\ outRedrawn = {} /\ outSample = <<>> /\ outIdx = 0
    /\ outScores = <<>> /\ outScore = 0

NO_CRITERIA == <<>>                    \* no GeneratedFitnessFunction built

NO_RESPONSE == [kind |-> "none", content |-> <<>>]

\* no FitnessGenerator and no evaluator in play
NoFitnessGenerator ==
    /\ description = <<>> /\ criteria = NO_CRITERIA
    /\ fgPc = "off" /\ client = "none" /\ response = NO_RESPONSE
    /\ fitnessFn = "none" /\ fgExc = "none"

\* no create_player call in play
NoPlayer ==
    /\ plPc = "off" /\ testing = FALSE
    /\ devices = 0 /\ entered = <<>> /\ device_id = <<>> /\ answer = <<>>
    /\ toneDevice = <<>> /\ toneOk = FALSE
    /\ selState = "pending" /\ selDevice = <<>>
    /\ player = "none" /\ playerDevice = <<>> /\ plExc = "none" /\ prompts = 0

\* no call of create_melody
NO_CALL ==
    [length |-> 0, population_size |-> 0, generations |-> 0, mutation_rate |-> 0,
     evaluator |-> "multi", seed |-> 0]

\* no earlier run to compare with
NO_FIRST == [runs |-> 0, trail |-> <<>>, result |-> <<>>, exc |-> "none", rng |-> 0]

NoRun ==
    /\ pc = "off"
    /\ length = 0 /\ population_size = 0 /\ generations = 0 /\ mutation_rate = 0
    /\ evaluator = "multi"
    /\ population = <<>> /\ new_population = <<>> /\ gen = 0
    /\ best_fitness = NEG_INF /\ current_best_fitness = 0
    /\ generations_without_improvement = 0
    /\ result = <<>> /\ exc = "none"
    /\ call = NO_CALL /\ trail = <<>> /\ first = NO_FIRST

\* a call create_melody(length, population_size, generations, mutation_rate)
Called(c) ==
    /\ pc = "called"
    /\ length = c.length /\ population_size = c.population_size
    /\ generations = c.generations /\ mutation_rate = c.mutation_rate
    /\ evaluator = c.evaluator /\ rng = c.seed
    /\ population = <<>> /\ new_population = <<>> /\ gen = 0
    /\ best_fitness = NEG_INF /\ current_best_fitness = 0
    /\ generations_without_improvement = 0
    /\ result = <<>> /\ exc = "none"
    /\ call = c /\ trail = <<>> /\ first = NO_FIRST

Init ==
    /\ NoOp /\ argText = <<>> /\ NoFitnessGenerator /\ NoPlayer
    /\ \E c \in ShortRuns \cup LongRuns : Called(c)

Next ==
    \/ CreateMelody
    \/ Rank
    \/ BreedCrossover
    \/ BreedRandom
    \/ EndGeneration
    \/ Return

Spec == Init /\ [][Next]_vars

\* the caller makes the same call once more, the random source seeded as before
CallAgain ==
    /\ pc \in {"done", "raised"} /\ first.runs = 0
    /\ first' = [runs |-> 1, trail |-> trail, result |-> result, exc |-> exc,
                 rng |-> rng]
    /\ pc' = "called"
    /\ length' = call.length /\ population_size' = call.population_size
    /\ generations' = call.generations /\ mutation_rate' = call.mutation_rate
    /\ evaluator' = call.evaluator /\ rng' = call.seed
    /\ population' = <<>> /\ new_population' = <<>> /\ gen' = 0
    /\ best_fitness' = NEG_INF /\ current_best_fitness' = 0
    /\ generations_without_improvement' = 0
    /\ result' = <<>> /\ exc' = "none" /\ trail' = <<>>
    /\ UNCHANGED call
    /\ UNCHANGED <<opVars, scoreVars, fitVars, playerVars>>

NextAgain ==
    \/ CreateMelody
    \/ Rank
    \/ BreedCrossover
    \/ BreedRandom
    \/ EndGeneration
    \/ Return
    \/ CallAgain

\* two runs of one call, one after the other
SpecAgain == Init /\ [][NextAgain]_vars

\* melodies handed to an operator: short ones over a scale note and a note
\* outside the scale, and the two eight-note melodies of the tests
ASCENDING == <<60, 62, 64, 65, 67, 69, 71, 72>>

DESCENDING == <<72, 71, 69, 67, 65, 64, 62, 60>>

OpNotes == {60, 61}

OpMelodies ==
    UNION {[1..n -> OpNotes] : n \in 0..MaxOpLen} \cup {ASCENDING, DESCENDING}

OpRates == {0, RATE_FLOOR, RATE_CEILING, RATE_ONE}

\* the population of test_tournament_select, and a melody too short to score
OpPool == {<<60, 64, 67, 60>>, <<60, 62, 64, 65>>, <<60, 60, 60, 60>>, <<60, 64, 67>>}

OpPopulations == UNION {[1..n -> OpPool] : n \in 0..MaxOpPop}

COMPLEX == <<60, 64, 67, 64, 65, 69, 67, 60>>

\* melodies handed to the scorer: every melody of up to MaxScoreLen notes over
\* chord tones, notes outside every chord and an octave leap, and the
\* melodies the tests score
ScoreNotes == {60, 61, 63, 67, 72}

ScoreFixtures ==
    {ASCENDING, DESCENDING, COMPLEX, <<67, 67, 64, 60>>,
     <<60, 64, 67, 60, 60, 64, 67, 60>>}

ScoreMelodies ==
    UNION {[1..n -> ScoreNotes] : n \in 0..MaxScoreLen} \cup ScoreFixtures

\* rubric texts: a sentence about the range, and pieces that spell the
\* keywords in one case or another, or almost spell them
\* "The melody should be in a high range."
HIGH_RANGE_TEXT ==
    <<"T", "h", "e", " ", "m", "e", "l", "o", "d", "y", " ", "s", "h", "o",
      "u", "l", "d", " ", "b", "e", " ", "i", "n", " ", "a", " ", "h", "i",
      "g", "h", " ", "r", "a", "n", "g", "e", ".">>

\* "HIGH Range"
FRAG_HIGH ==
    <<"H", "I", "G", "H", " ", "R", "a", "n", "g", "e">>

\* "use a low range"
FRAG_LOW ==
    <<"u", "s", "e", " ", "a", " ", "l", "o", "w", " ", "r", "a", "n", "g",
      "e">>

\* "Strong emphasis on stepwise motion"
FRAG_STEPWISE ==
    <<"S", "t", "r", "o", "n", "g", " ", "e", "m", "p", "h", "a", "s", "i",
      "s", " ", "o", "n", " ", "s", "t", "e", "p", "w", "i", "s", "e", " ",
      "m", "o", "t", "i", "o", "n">>

\* "strong cadences"
FRAG_CADENCES ==
    <<"s", "t", "r", "o", "n", "g", " ", "c", "a", "d", "e", "n", "c", "e",
      "s">>

\* "Longer Phrases"
FRAG_LONGER ==
    <<"L", "o", "n", "g", "e", "r", " ", "P", "h", "r", "a", "s", "e", "s">>

\* "short motifs"
FRAG_SHORT ==
    <<"s", "h", "o", "r", "t", " ", "m", "o", "t", "i", "f", "s">>

\* " and "
FRAG_AND ==
    <<" ", "a", "n", "d", " ">>

\* "high-range"
FRAG_HIGH_BROKEN ==
    <<"h", "i", "g", "h", "-", "r", "a", "n", "g", "e">>

Fragments ==
    {FRAG_HIGH, FRAG_LOW, FRAG_STEPWISE, FRAG_CADENCES, FRAG_LONGER, FRAG_SHORT,
     FRAG_AND, FRAG_HIGH_BROKEN}

RECURSIVE Joined(_)
Joined(pieces) == IF pieces = <<>> THEN <<>> ELSE Head(pieces) \o Joined(Tail(pieces))

Texts ==
    {Joined(pieces) : pieces \in UNION {[1..n -> Fragments] : n \in 0..MaxFragments}}
        \cup {HIGH_RANGE_TEXT}

\* texts of one piece at most
SingleTexts == Fragments \cup {<<>>, HIGH_RANGE_TEXT}

HIGH_MELODY == <<68, 70, 72, 74, 76, 78>>

\* melodies handed to the default and the generated evaluator
FitNotes == {50, 60, 62, 67}

FitMelodies ==
    UNION {[1..n -> FitNotes] : n \in 0..MaxFitLen}
        \cup {HIGH_MELODY, ASCENDING, COMPLEX}

\* GeneratedFitnessFunction(text).fitness(melody): every text with the high
\* melody, and the short texts with every melody
GeneratedCalls ==
    (Texts \X {HIGH_MELODY}) \cup (SingleTexts \X FitMelodies)

InitOps ==
    /\ NoRun
    /\ rng \in 0..(NumOpSeeds - 1)
    /\ opState = "pending" /\ opExc = "none"
    /\ out = <<>> /\ outCut = 0 /\ outRedrawn = {} /\ outSample = <<>> /\ outIdx = 0
    /\ outScores = <<>> /\ outScore = 0
    /\ NoFitnessGenerator /\ NoPlayer
    /\ \/ /\ op = "crossover"
          /\ argA \in OpMelodies /\ argB \in OpMelodies
          /\ argRate = 0 /\ argPop = <<>> /\ argK = 0 /\ argText = <<>>
       \/ /\ op = "mutate"
          /\ argA \in OpMelodies /\ argRate \in OpRates
          /\ argB = <<>> /\ argPop = <<>> /\ argK = 0 /\ argText = <<>>
       \/ /\ op = "select"
          /\ argPop \in OpPopulations /\ argK \in (-1)..(MaxOpPop + 1)
          /\ argA = <<>> /\ argB = <<>> /\ argRate = 0 /\ argText = <<>>
       \/ /\ op = "random_melody"
          /\ argK \in 0..MaxRandomLen
          /\ argA = <<>> /\ argB = <<>> /\ argRate = 0 /\ argPop = <<>> /\ argText = <<>>
       \/ /\ op = "evaluate" /\ rng = 0
          /\ argA \in ScoreMelodies
          /\ argB = <<>> /\ argRate = 0 /\ argPop = <<>> /\ argK = 0 /\ argText = <<>>
       \/ /\ op = "default_fitness" /\ rng = 0
          /\ argA \in FitMelodies
          /\ argB = <<>> /\ argRate = 0 /\ argPop = <<>> /\ argK = 0 /\ argText = <<>>
       \/ /\ op = "generated_fitness" /\ rng = 0
          /\ \E c \in GeneratedCalls : argText = c[1] /\ argA = c[2]
          /\ argB = <<>> /\ argRate = 0 /\ argPop = <<>> /\ argK = 0

NextOps ==
    \/ CallCrossover
    \/ CallMutate
    \/ CallTournamentSelect
    \/ CallCreateRandomMelody
    \/ CallEvaluateFitness
    \/ CallDefaultFitness
    \/ ConstructGenerated
    \/ CallGeneratedFitness

SpecOps == InitOps /\ [][NextOps]_vars

(***************************************************************************)
(* FitnessGenerator: construction, and generate_fitness                    *)
(***************************************************************************)
\* the base class of an exception class of the anthropic package
BASE_OF == [APIConnectionError |-> "APIError", AuthenticationError |-> "APIError"]

RECURSIVE IsInstance(_, _)
\* an except clause naming the classes catches e
IsInstance(e, classes) ==
    \/ e \in classes
    \/ e \in DOMAIN BASE_OF /\ IsInstance(BASE_OF[e], classes)

\* except (APIConnectionError, APIError, ValueError, TypeError) in generate_fitness
GENERATE_CAUGHT == {"APIConnectionError", "APIError", "ValueError", "TypeError"}

\* ways anthropic.Anthropic() can fail
ClientFailures == {"APIConnectionError", "APIError"}

\* ways client.messages.create can fail
CreateFailures ==
    {"APIConnectionError", "APIError", "AuthenticationError", "ValueError", "TypeError"}

\* what response.content can be: a text, a list of content blocks, or None
Responses ==
    [kind : {"str"}, content : Texts] \cup [kind : {"list", "NoneType"}, content : {<<>>}]

\* melodies scored with the evaluator handed out
UseMelodies == {<<>>, HIGH_MELODY, ASCENDING}

\* FitnessGenerator(): a failure of the client's construction is logged and
\* raised again, any other exception escapes untouched
FitnessGeneratorInit ==
    /\ fgPc = "new"
    /\ \/ /\ client' = "ready"
          /\ fgPc' = "constructed"
          /\ UNCHANGED fgExc
       \/ \E e \in ClientFailures :
              /\ fgPc' = "raised"
              /\ fgExc' = e
              /\ UNCHANGED client
    /\ UNCHANGED <<argText, description, criteria, response, fitnessFn>>
    /\ UNCHANGED <<runVars, playerVars, opVars, scoreVars, rng>>

\* the exception GeneratedFitnessFunction(content) ends in, or "none":
\* content.lower() exists for a str only
GeneratedExc(r) == IF r.kind = "str" THEN "none" ELSE "AttributeError"

\* generate_fitness()
GenerateFitness ==
    /\ fgPc = "constructed"
    /\ \/ \E e \in CreateFailures :
              /\ UNCHANGED <<response, description, criteria>>
              /\ IF IsInstance(e, GENERATE_CAUGHT)
                 THEN /\ fitnessFn' = "DefaultFitnessFunction"
                      /\ fgPc' = "returned"
                      /\ UNCHANGED fgExc
                 ELSE /\ fgPc' = "raised"
                      /\ fgExc' = e
                      /\ UNCHANGED fitnessFn
       \/ \E r \in Responses :
              /\ response' = r
              /\ IF GeneratedExc(r) = "none"
                 THEN /\ description' = r.content
                      /\ criteria' = ParsePromptResponse(r.content)
                      /\ fitnessFn' = "GeneratedFitnessFunction"
                      /\ fgPc' = "returned"
                      /\ UNCHANGED fgExc
                 ELSE IF IsInstance(GeneratedExc(r), GENERATE_CAUGHT)
                 THEN /\ fitnessFn' = "DefaultFitnessFunction"
                      /\ fgPc' = "returned"
                      /\ UNCHANGED <<description, criteria, fgExc>>
                 ELSE /\ fgPc' = "raised"
                      /\ fgExc' = GeneratedExc(r)
                      /\ UNCHANGED <<description, criteria, fitnessFn>>
    /\ UNCHANGED <<argText, client>>
    /\ UNCHANGED <<runVars, playerVars, opVars, scoreVars, rng>>

\* .fitness(melody) of the evaluator generate_fitness handed out
UseFitness ==
    /\ fgPc = "returned"
    /\ \E melody \in UseMelodies :
           /\ argA' = melody
           /\ outScore' = IF fitnessFn = "GeneratedFitnessFunction"
                           THEN GeneratedFitness(criteria, melody)
                           ELSE DefaultFitness(melody)
    /\ fgPc' = "scored"
    /\ UNCHANGED <<argText, description, criteria, client, response, fitnessFn, fgExc>>
    /\ UNCHANGED <<op, opState, opExc, argB, argRate, argPop, argK,
                   out, outCut, outRedrawn, outSample, outIdx, outScores, rng>>
    /\ UNCHANGED <<runVars, playerVars>>

\* a caller about to construct a FitnessGenerator
InitFitness ==
    /\ NoRun /\ NoOp /\ rng = 0 /\ argText = <<>>
    /\ description = <<>> /\ criteria = NO_CRITERIA
    /\ fgPc = "new" /\ client = "none" /\ response = NO_RESPONSE
    /\ fitnessFn = "none" /\ fgExc = "none"
    /\ NoPlayer

NextFitness ==
    \/ FitnessGeneratorInit
    \/ GenerateFitness
    \/ UseFitness

SpecFitness == InitFitness /\ [][NextFitness]_vars

(***************************************************************************)
(* main.py: create_player and select_audio_device.  What the user types is *)
(* a text, the sequence of its characters; the calls into sounddevice      *)
(* either work or fail with one of its errors.                             *)
(***************************************************************************)
DIGITS == <<"0", "1", "2", "3", "4", "5", "6", "7", "8", "9">>

DigitValue(c) == (CHOOSE i \in 1..Len(DIGITS) : DIGITS[i] = c) - 1

RECURSIVE DecimalValue(_)
DecimalValue(digits) ==
    IF digits = <<>> THEN 0
    ELSE 10 * DecimalValue(SubSeq(digits, 1, Len(digits) - 1))
             + DigitValue(digits[Len(digits)])

RECURSIVE LStrip(_)
LStrip(text) == IF text # <<>> /\ Head(text) = " " THEN LStrip(Tail(text)) ELSE text

RECURSIVE RStrip(_)
RStrip(text) ==
    IF text # <<>> /\ text[Len(text)] = " "
    THEN RStrip(SubSeq(text, 1, Len(text) - 1))
    ELSE text

\* str.strip()
Strip(text) == RStrip(LStrip(text))

\* the digits of int(text): blanks around it and one sign in front dropped
IntBody(text) ==
    LET s == Strip(text)
    IN  IF s # <<>> /\ s[1] \in {"+", "-"} THEN Tail(s) ELSE s

\* int(text) raises ValueError unless digits are left, and only digits
IntRaises(text) ==
    \/ IntBody(text) = <<>>
    \/ \E i \in 1..Len(IntBody(text)) : IntBody(text)[i] \notin Range(DIGITS)

\* int(text)
IntOf(text) ==
    IF Strip(text)[1] = "-" THEN 0 - DecimalValue(IntBody(text))
    ELSE DecimalValue(IntBody(text))

\* device_id.lower() == "q"
IsQuit(text) == Lower(text) = <<"q">>

\* proceed == "y" for proceed = input(...).lower().strip()
IsYes(text) == Strip(Lower(text)) = <<"y">>

\* a range check that lets the count itself through
InRangeInclusive(d, n) == 0 <= d /\ d <= n

\* 0 <= device_id < len(devices)
InRange(d, n) == 0 <= d /\ d < n

\* the handler of create_player without ValueError
PLAYER_CAUGHT_AUDIO_ONLY == {"PortAudioError"}

\* except (sd.PortAudioError, ValueError) in create_player
PLAYER_CAUGHT == {"PortAudioError", "ValueError"}

\* except sd.PortAudioError in AudioPlayer.test_device
TEST_CAUGHT == {"PortAudioError"}

\* except ValueError in the loop of select_audio_device
LOOP_CAUGHT == {"ValueError"}

\* errors a call into sounddevice can end in
SD_FAILURES == {"PortAudioError", "ValueError"}

\* what is typed at the device prompt
DeviceEntries ==
    {<<"q">>, <<"Q">>, <<"q", " ">>, <<"0">>, <<"1">>, <<" ", "1">>, <<"2">>,
     <<"1", "0">>, <<"-", "1">>, <<"x">>, <<>>}

\* what is typed at the confirmation
Answers == {<<"y">>, <<"Y">>, <<" ", "y">>, <<"n">>, <<"y", "e", "s">>, <<>>}

\* create_player ends by handing out a MockPlayer
ReturnMock ==
    /\ player' = "MockPlayer"
    /\ playerDevice' = <<>>
    /\ plPc' = "done"
    /\ UNCHANGED plExc

\* an exception e leaves select_audio_device and meets create_player's handler
SelectionRaised(e) ==
    /\ selState' = "raised"
    /\ selDevice' = <<>>
    /\ IF e \in PLAYER_CAUGHT
       THEN ReturnMock
       ELSE /\ plPc' = "raised"
            /\ plExc' = e
            /\ UNCHANGED <<player, playerDevice>>

\* create_player(testing) up to its return or to the first device prompt:
\* the devices are listed before the first prompt
CreatePlayer ==
    /\ plPc = "called"
    /\ IF testing
       THEN /\ ReturnMock
            /\ UNCHANGED <<devices, selState, selDevice>>
       ELSE \/ \E n \in 0..MaxDevices :
                  /\ devices' = n
                  /\ plPc' = "prompt"
                  /\ UNCHANGED <<selState, selDevice, player, playerDevice, plExc>>
            \/ \E e \in SD_FAILURES :
                  /\ SelectionRaised(e)
                  /\ UNCHANGED devices
    /\ UNCHANGED <<testing, entered, device_id, answer, toneDevice, toneOk, prompts>>
    /\ UNCHANGED <<runVars, opVars, scoreVars, fitVars, rng>>

\* the device prompt is answered: quit, or a number that is checked and, if
\* in range, tried with a test tone, up to the next prompt
EnterDevice ==
    /\ plPc = "prompt" /\ prompts < MaxInputs
    /\ prompts' = prompts + 1
    /\ \E text \in DeviceEntries :
          /\ entered' = text
          /\ IF IsQuit(text)
             THEN /\ selState' = "None"
                  /\ ReturnMock
                  /\ UNCHANGED <<selDevice, device_id, toneDevice, toneOk>>
             ELSE IF IntRaises(text)
             THEN /\ plPc' = "prompt"
                  /\ UNCHANGED <<selState, selDevice, device_id, toneDevice, toneOk,
                                 player, playerDevice, plExc>>
             ELSE /\ device_id' = <<IntOf(text)>>
                  /\ IF InRange(IntOf(text), devices)
                     THEN /\ toneDevice' = <<IntOf(text)>>
                          /\ \/ /\ toneOk' = TRUE
                                /\ plPc' = "confirm"
                             \/ \E e \in SD_FAILURES :
                                   /\ e \in TEST_CAUGHT \cup LOOP_CAUGHT
                                   /\ toneOk' = FALSE
                                   /\ plPc' = "prompt"
                     ELSE /\ plPc' = "prompt"
                          /\ UNCHANGED <<toneDevice, toneOk>>
                  /\ UNCHANGED <<selState, selDevice, player, playerDevice, plExc>>
    /\ UNCHANGED <<testing, devices, answer>>
    /\ UNCHANGED <<runVars, opVars, scoreVars, fitVars, rng>>

\* the confirmation is answered: the device is returned and an AudioPlayer
\* made for it, or the device prompt comes again
Confirm ==
    /\ plPc = "confirm" /\ prompts < MaxInputs
    /\ prompts' = prompts + 1
    /\ \E text \in Answers :
          /\ answer' = text
          /\ IF IsYes(text)
             THEN /\ selState' = "device"
                  /\ selDevice' = device_id
                  /\ player' = "AudioPlayer"
                  /\ playerDevice' = device_id
                  /\ plPc' = "done"
             ELSE /\ plPc' = "prompt"
                  /\ UNCHANGED <<selState, selDevice, player, playerDevice>>
    /\ UNCHANGED <<testing, devices, entered, device_id, toneDevice, toneOk, plExc>>
    /\ UNCHANGED <<runVars, opVars, scoreVars, fitVars, rng>>

\* a caller about to call create_player(testing)
InitPlayer ==
    /\ NoRun /\ NoOp /\ rng = 0 /\ argText = <<>> /\ NoFitnessGenerator
    /\ plPc = "called" /\ testing \in BOOLEAN
    /\ devices = 0 /\ entered = <<>> /\ device_id = <<>> /\ answer = <<>>
    /\ toneDevice = <<>> /\ toneOk = FALSE
    /\ selState = "pending" /\ selDevice = <<>>
    /\ player = "none" /\ playerDevice = <<>> /\ plExc = "none" /\ prompts = 0

NextPlayer ==
    \/ CreatePlayer
    \/ EnterDevice
    \/ Confirm

SpecPlayer == InitPlayer /\ [][NextPlayer]_vars

(***************************************************************************)
(* Properties of a create_melody run (specification Spec)                  *)
(***************************************************************************)
AllOfLength(pop, n) == \A i \in 1..Len(pop) : Len(pop[i]) = n

AllInScale(pop) == \A i \in 1..Len(pop) : Range(pop[i]) \subseteq Range(C_MAJOR)

\* C1: in every state of a run every sequence of the population, and of the
\* population being built, has exactly `length` notes, and so has the melody
\* returned.
LengthInvariant ==
    (length >= 1 /\ population_size >= 1) =>
        /\ AllOfLength(population, length)
        /\ AllOfLength(new_population, length)
        /\ pc = "done" => Len(result) = length

\* a run of several generations that bred children has returned
LengthWitness ==
    /\ pc = "done" /\ evaluator = "multi"
    /\ gen >= 2 /\ population_size > ELITE_COUNT + 1
    /\ Len(result) = length /\ AllOfLength(population, length)

\* C2: in every state of a run every note of every sequence of the
\* population, and of the population being built, is a member of C_MAJOR,
\* and so is every note of the melody returned.
ScaleInvariant ==
    /\ AllInScale(population)
    /\ AllInScale(new_population)
    /\ pc = "done" => Range(result) \subseteq Range(C_MAJOR)

\* an injected melody with its forced end note is in the population being
\* built, after the first generation
ScaleWitness ==
    /\ pc = "breed" /\ gen >= 1
    /\ Len(new_population) > ELITE_COUNT
    /\ \E i \in (ELITE_COUNT + 1)..Len(new_population) :
           /\ new_population[i][1] \in Range(START_NOTES)
           /\ new_population[i][length] = 64
    /\ AllInScale(new_population)

ScoreOf(best) == best[1]

\* C3: best_fitness never decreases; it changes only in the ranking step of
\* a generation whose greatest score is strictly above it, and then it is
\* exactly that greatest score.
BestFitnessMonotone ==
    [][ /\ (best_fitness # NEG_INF) =>
              (best_fitness' # NEG_INF /\ ScoreOf(best_fitness') >= ScoreOf(best_fitness))
        /\ (best_fitness' # best_fitness) =>
              /\ pc = "loop" /\ pc' = "breed"
              /\ best_fitness = NEG_INF
                    \/ current_best_fitness' > ScoreOf(best_fitness)
              /\ best_fitness' = <<current_best_fitness'>>
              /\ \A i \in 1..Len(population) :
                     Fitness(evaluator, population[i]) <= current_best_fitness'
              /\ \E i \in 1..Len(population) :
                     Fitness(evaluator, population[i]) = current_best_fitness'
      ]_vars

\* a generation after the first has just improved on the best score so far
BestFitnessWitness ==
    /\ pc = "breed" /\ evaluator = "multi" /\ gen >= 1
    /\ generations_without_improvement = 0
    /\ best_fitness = <<current_best_fitness>>

ConstantScorer == evaluator = "const" /\ generations > STAGNATION_LIMIT + 1

\* C4 as stated: with a constant scorer and a budget above 101 the run stops
\* early having executed at most STAGNATION_LIMIT + 1 = 101 generations.
EarlyStopWithinLimitPlusOne ==
    ConstantScorer =>
        /\ pc = "loop" => gen < generations
        /\ pc \in {"stopped", "done"} => gen <= STAGNATION_LIMIT + 1

\* C4 amended: with a constant scorer and a budget above 101 the run stops
\* early (the budget is never used up) having executed at most
\* STAGNATION_LIMIT + 2 = 102 generations.
EarlyStopWithinLimitPlusTwo ==
    ConstantScorer =>
        /\ pc = "loop" => gen < generations
        /\ pc \in {"stopped", "done"} => gen <= STAGNATION_LIMIT + 2

\* a run that breeds children has stopped early with budget left
EarlyStopWitness ==
    /\ ConstantScorer /\ pc = "stopped"
    /\ generations > STAGNATION_LIMIT + 2
    /\ gen = STAGNATION_LIMIT + 2
    /\ population_size > ELITE_COUNT

\* C5: no exception escapes create_melody: a run whose scoring or operators
\* fail still ends by returning a sequence.
NoExceptionEscapes == pc # "raised"

(***************************************************************************)
(* Properties of the operators called on their own (specification SpecOps) *)
(***************************************************************************)
Ended(name) == op = name /\ opState # "pending"

\* C6: for equal-length parents of L >= 2 notes _crossover returns a child
\* of L notes that follows parent A before a cut c in 1..L-1 and parent B
\* from it on, so that it starts with A's first note and ends with B's
\* last; with cut 4 the ascending and descending test melodies give
\* [60,62,64,65,65,64,62,60]; the parents are left as they were.
CrossoverSinglePoint ==
    /\ [](  (Ended("crossover") /\ Len(argA) = Len(argB) /\ Len(argA) >= 2) =>
              /\ opState = "returned"
              /\ outCut \in 1..(Len(argA) - 1)
              /\ Len(out) = Len(argA)
              /\ \A i \in 1..outCut : out[i] = argA[i]
              /\ \A i \in (outCut + 1)..Len(argA) : out[i] = argB[i]
              /\ out[1] = argA[1] /\ out[Len(out)] = argB[Len(argB)]
              /\ (argA = ASCENDING /\ argB = DESCENDING /\ outCut = 4) =>
                     out = <<60, 62, 64, 65, 65, 64, 62, 60>> )
    /\ [][op = "crossover" => (argA' = argA /\ argB' = argB)]_vars

\* the scenario of the two test melodies cut at 4
CrossoverWitness ==
    /\ Ended("crossover") /\ opState = "returned"
    /\ argA = ASCENDING /\ argB = DESCENDING /\ outCut = 4
    /\ out = <<60, 62, 64, 65, 65, 64, 62, 60>>

\* C7: for parents of different lengths _crossover ends in an error and
\* returns no child.
CrossoverRejectsUnequal ==
    (Ended("crossover") /\ Len(argA) # Len(argB)) => opState = "raised"

\* C8: _mutate(S, 0.0) returns S note for note.
MutateRateZeroIdentity ==
    (Ended("mutate") /\ argRate = 0) => out = argA

\* a melody with a note outside the scale went through _mutate at rate 0
MutateRateZeroWitness ==
    /\ Ended("mutate") /\ argRate = 0
    /\ Len(argA) = MaxOpLen /\ 61 \in Range(argA)
    /\ out = argA

\* C9: _mutate returns a sequence of the same length in which every position
\* holds the argument's note or a member of the scale (positions not redrawn
\* keep their note, redrawn ones hold a scale member); at rate 1.0 every
\* position is redrawn, so every note is a scale member; the argument is
\* left as it was.
MutatePerPosition ==
    /\ [](  Ended("mutate") =>
              /\ Len(out) = Len(argA)
              /\ \A i \in 1..Len(argA) :
                     /\ out[i] = argA[i] \/ out[i] \in Range(scale)
                     /\ i \notin outRedrawn => out[i] = argA[i]
                     /\ i \in outRedrawn => out[i] \in Range(scale)
              /\ argRate = RATE_ONE =>
                     /\ outRedrawn = 1..Len(argA)
                     /\ Range(out) \subseteq Range(scale) )
    /\ [][op = "mutate" => argA' = argA]_vars

\* a melody of off-scale notes went through _mutate at rate 1.0, and another
\* at a rate in between kept some notes and had others redrawn
MutateFullRateWitness ==
    /\ Ended("mutate") /\ argRate = RATE_ONE
    /\ Len(argA) = MaxOpLen /\ Range(argA) = {61}
    /\ Range(out) \subseteq Range(scale)

Scorable(pop) == \A i \in 1..Len(pop) : ~ContourRaises(pop[i])

TournamentRejectsBadSize ==
    (Ended("select") /\ (argK > Len(argPop) \/ argK <= 0)) =>
        /\ opState = "raised" /\ opExc = "ValueError"
        /\ out = <<>> /\ outIdx = 0 /\ outSample = <<>>

\* a tournament one larger than a full population of melodies the scorer
\* accepts ended in the error
TournamentBadSizeWitness ==
    /\ Ended("select") /\ opState = "raised"
    /\ Len(argPop) = MaxOpPop /\ Scorable(argPop)
    /\ argK = Len(argPop) + 1

(***************************************************************************)
(* Properties of the multi-criterion scorer (specification SpecOps)        *)
(***************************************************************************)
\* C12: for every melody of four notes or more, each of the five sub-scores
\* (contour, rhythm, harmony, phrasing, tension and resolution) is at least
\* 0 and at most 20 points.
SubScoresWithinBounds ==
    (Ended("evaluate") /\ Len(argA) >= SHORTEST_SCORED) =>
        /\ opState = "returned"
        /\ Len(outScores) = 5
        /\ \A i \in 1..5 : outScores[i] >= 0 /\ outScores[i] <= SUBSCORE_CAP

\* C13: for every melody of four notes or more _evaluate_fitness returns the
\* sum of the five sub-scores, and that total is at least 0 and at most 100
\* points; for the melody 60 64 67 64 65 69 67 60 the harmony sub-score is
\* more than 0.
TotalIsSumWithinHundred ==
    (Ended("evaluate") /\ Len(argA) >= SHORTEST_SCORED) =>
        /\ opState = "returned"
        /\ outScore = SumOver(outScores, 1..Len(outScores))
        /\ outScore >= 0 /\ outScore <= 5 * SUBSCORE_CAP
        /\ (argA = COMPLEX => outScores[3] > 0)

\* a scorer call that has come to its end, one way or the other
Scored(name) == op = name /\ opState \in {"returned", "raised"}

\* C14: each of the three scorers (the default evaluator, the generated
\* evaluator and the multi-criterion _evaluate_fitness) returns a number for
\* every melody, the empty melody and melodies of one to three notes
\* included, and returns 0 for the empty melody.
ScoringNeverFails ==
    \A name \in {"evaluate", "default_fitness", "generated_fitness"} :
        Scored(name) =>
            /\ opState = "returned"
            /\ outScore \in Int
            /\ (argA = <<>> => outScore = 0)

(***************************************************************************)
(* Properties of the generated evaluator (specification SpecOps)           *)
(***************************************************************************)
\* the text was put together from pieces one of which is piece
Mentions(text, piece) ==
    \E pieces \in UNION {[1..n -> Fragments] : n \in 0..MaxFragments} :
        Joined(pieces) = text /\ piece \in Range(pieces)

\* C17: a GeneratedFitnessFunction keeps its text and parses it once, when
\* it is constructed, by keywords found in any mix of capitals and small
\* letters: the range is (67,79) for "high range", else (48,60) for "low
\* range", else (60,72); the stepwise weight is 0.8 for "strong emphasis on
\* stepwise motion", else 0.5; the cadence weight is 3.0 for "strong
\* cadences", else 2.0; the phrase length is 8 for "longer phrases", else 2
\* for "short motifs", else 4.  Scoring leaves the parsed criteria as they
\* are, and with "The melody should be in a high range." the melody
\* 68 70 72 74 76 78 scores more than 0.
RubricRuleTable ==
    /\ [](  (op = "generated_fitness" /\ opState \in {"constructed", "returned"}) =>
              LET high == argText = HIGH_RANGE_TEXT \/ Mentions(argText, FRAG_HIGH)
                  low == Mentions(argText, FRAG_LOW)
              IN  /\ description = argText
                  /\ criteria.preferred_range =
                         IF high THEN <<67, 79>> ELSE IF low THEN <<48, 60>> ELSE <<60, 72>>
                  /\ criteria.stepwise_motion_weight =
                         IF Mentions(argText, FRAG_STEPWISE) THEN 80 ELSE 50
                  /\ criteria.cadence_weight =
                         IF Mentions(argText, FRAG_CADENCES) THEN 300 ELSE 200
                  /\ criteria.phrase_length =
                         IF Mentions(argText, FRAG_LONGER) THEN 8
                         ELSE IF Mentions(argText, FRAG_SHORT) THEN 2 ELSE 4
                  /\ (opState = "returned" /\ argText = HIGH_RANGE_TEXT /\ argA = HIGH_MELODY)
                         => outScore > 0 )
    /\ [][(op = "generated_fitness" /\ opState = "constructed")
              => (criteria' = criteria /\ description' = description)]_vars

\* a text that names the low range and then, in capitals, the high range
\* was parsed to the high range and a melody was scored with it
RubricWitness ==
    /\ op = "generated_fitness" /\ opState = "returned"
    /\ argText = FRAG_LOW \o FRAG_HIGH
    /\ criteria.preferred_range = HIGH_RANGE
    /\ argA = HIGH_MELODY /\ outScore > 0

(***************************************************************************)
(* Properties of FitnessGenerator (specification SpecFitness)              *)
(***************************************************************************)
\* C15: generate_fitness always ends by handing out an evaluator and lets no
\* exception reach its caller: a GeneratedFitnessFunction built from the
\* response when the call gave back a text, and a DefaultFitnessFunction
\* when the call failed or gave back something that is not a text.
GenerateFitnessAlwaysReturns ==
    (client = "ready" /\ fgPc \in {"returned", "raised", "scored"}) =>
        /\ fgPc # "raised" /\ fgExc = "none"
        /\ fitnessFn = IF response.kind = "str" THEN "GeneratedFitnessFunction"
                       ELSE "DefaultFitnessFunction"
        /\ (response.kind = "str" => description = response.content)

\* C16: when anthropic.Anthropic() fails with APIConnectionError or APIError
\* while a FitnessGenerator is constructed, no exception reaches the caller,
\* who still gets a DefaultFitnessFunction.
ConstructionFailureAbsorbed ==
    (client = "none" /\ fgPc # "new") =>
        /\ fgPc # "raised" /\ fgExc = "none"
        /\ fitnessFn = "DefaultFitnessFunction"

(***************************************************************************)
(* Properties of _create_random_melody (specification SpecOps)             *)
(***************************************************************************)
\* C18 as stated: for every length L >= 1 the random melody has L notes,
\* starts on 60 or 67, ends on 60 or 64, and is in the scale in between.
RandomMelodyEndsOnTonicOrThird ==
    (Ended("random_melody") /\ argK >= 1) =>
        /\ Len(out) = argK
        /\ out[1] \in Range(START_NOTES)
        /\ out[argK] \in Range(END_NOTES)
        /\ \A i \in 2..(argK - 1) : out[i] \in Range(scale)

\* C18: for every length L >= 1 the random melody has L notes and starts on
\* 60 or 67; for L >= 2 it ends on 60 or 64 and every position in between
\* is in the scale; for L = 1 its only note is drawn as a first note, 60 or
\* 67.
RandomMelodyBoundaryPolicy ==
    (Ended("random_melody") /\ argK >= 1) =>
        /\ opState = "returned"
        /\ Len(out) = argK
        /\ out[1] \in Range(START_NOTES)
        /\ (argK >= 2 => out[argK] \in Range(END_NOTES))
        /\ \A i \in 2..(argK - 1) : out[i] \in Range(scale)

\* a one-note random melody came out as the dominant, which is no end note
RandomMelodyWitness ==
    /\ Ended("random_melody") /\ opState = "returned"
    /\ argK = 1 /\ out = <<67>>

(***************************************************************************)
(* Properties of create_player and select_audio_device (SpecPlayer)        *)
(***************************************************************************)
\* C19: create_player never raises to its caller and always hands out a
\* player: a MockPlayer when testing is true (no text is read from the user
\* then), when select_audio_device returns None and when a PortAudioError or
\* a ValueError leaves device selection; an AudioPlayer, bound to the device
\* select_audio_device returned, exactly when a device was selected.
PlayerDegradesToMock ==
    /\ plPc # "raised" /\ plExc = "none"
    /\ plPc = "done" =>
          /\ player \in {"MockPlayer", "AudioPlayer"}
          /\ testing => player = "MockPlayer" /\ prompts = 0 /\ selState = "pending"
          /\ selState \in {"None", "raised"} => player = "MockPlayer"
          /\ player = "AudioPlayer" <=> selState = "device"
          /\ player = "AudioPlayer" =>
                ~testing /\ selDevice # <<>> /\ playerDevice = selDevice
          /\ player = "MockPlayer" => playerDevice = <<>>

\* listing the devices failed and the caller still got a MockPlayer
PlayerFailureWitness ==
    plPc = "done" /\ ~testing /\ selState = "raised" /\ player = "MockPlayer"

\* text is "y" once blanks around it and the case of the letter are ignored
SaysYes(text) ==
    \E i \in 1..Len(text) :
        /\ text[i] \in {"y", "Y"}
        /\ \A j \in 1..Len(text) : j # i => text[j] = " "

\* this step read the text typed at the device prompt
DeviceEntered == plPc = "prompt" /\ prompts' = prompts + 1

\* this step read the text typed at the confirmation
Answered == plPc = "confirm" /\ prompts' = prompts + 1

\* this step returns from select_audio_device
Returns(how) == selState = "pending" /\ selState' = how

\* C20 as stated: None is returned only after the text q is entered, and
\* every answer that is not the text y leads back to the device prompt.
SelectionLiteralQuitAndYes ==
    [][/\ Returns("None") => entered' = <<"q">>
       /\ Answered /\ answer' # <<"y">> => plPc' = "prompt" /\ selState' = "pending"]_vars

\* C20 (amended): select_audio_device returns None only on an entry that is
\* q or Q; it returns d only if 0 <= d < number of devices, the last test
\* tone was played on d and succeeded, and the confirmation for d was
\* answered with y or Y, blanks around it ignored; an entry that is not a
\* number, a number out of range, a failed test tone and every other answer
\* lead back to the device prompt and nothing is returned.
SelectionReturnsConfirmedDevice ==
    [][/\ Returns("None") => DeviceEntered /\ entered' \in {<<"q">>, <<"Q">>}
       /\ Returns("device") =>
             /\ Answered /\ SaysYes(answer')
             /\ selDevice' = device_id /\ toneDevice = device_id /\ toneOk
             /\ 0 <= selDevice'[1] /\ selDevice'[1] < devices
       /\ Answered /\ ~SaysYes(answer') => plPc' = "prompt" /\ selState' = "pending"
       /\ /\ DeviceEntered
          /\ entered' \notin {<<"q">>, <<"Q">>}
          /\ \/ IntRaises(entered')
             \/ IntOf(entered') < 0
             \/ IntOf(entered') >= devices
             \/ ~toneOk'
          => plPc' = "prompt" /\ selState' = "pending"
       /\ plPc' = "confirm" => toneOk' /\ toneDevice' = device_id'
                               /\ 0 <= device_id'[1] /\ device_id'[1] < devices']_vars

\* device 1 was returned after a rejected entry, on the answer Y
SelectionWitness ==
    /\ selState = "device" /\ selDevice = <<1>> /\ answer = <<"Y">>
    /\ toneOk /\ toneDevice = <<1>> /\ devices = 2 /\ prompts >= 3

(***************************************************************************)
(* Properties of the generations of a run (specification Spec)             *)
(***************************************************************************)
RECURSIVE Drawn(_, _)
\* the random source n draws after state r
Drawn(r, n) == IF n = 0 THEN r ELSE Drawn(RngStep(r), n - 1)

\* pop is in descending order of score
RankedDescending(pop, ev) ==
    \A i \in 1..Len(pop) : \A j \in i..Len(pop) :
        Fitness(ev, pop[i]) >= Fitness(ev, pop[j])

\* member i of pop can win a tournament of TOURNAMENT_SIZE distinct members
CanWinTournament(pop, ev, i) ==
    Cardinality({k \in 1..Len(pop) :
                    k # i /\ Fitness(ev, pop[k]) <= Fitness(ev, pop[i])})
        >= TOURNAMENT_SIZE - 1

\* member is the mutation, at this rate and from the random source after n
\* draws, of child; the random source is left where the mutation ended
MutationOf(member, child, rate, n) ==
    /\ member = Mutate(child, rate, Drawn(rng, n)).m
    /\ rng' = Mutate(child, rate, Drawn(rng, n)).rng

\* member is the mutation of the head of one tournament winner joined to the
\* tail of another; the branch draw, two samples and the cut come before it
MutatedCrossoverChild(member, pop, ev, rate) ==
    \E i, j \in 1..Len(pop) : \E cut \in 1..(Len(pop[i]) - 1) :
        /\ CanWinTournament(pop, ev, i) /\ CanWinTournament(pop, ev, j)
        /\ MutationOf(member,
                      SubSeq(pop[i], 1, cut) \o SubSeq(pop[j], cut + 1, Len(pop[j])),
                      rate, 2 + 2 * TOURNAMENT_SIZE)

\* member is the mutation of the random melody created after the branch draw
MutatedFreshMelody(member, len, rate) ==
    MutationOf(member, CreateRandomMelody(len, Drawn(rng, 1)).m, rate, 1 + len)

\* C21: with population_size >= 2, ranking puts the population in descending
\* order and starts the next population with its first two members; every
\* breeding step appends one member, which is the mutation, at the rate set
\* in this generation, of a crossover child of two tournament winners of the
\* current population or of a fresh random melody, and leaves the members
\* already there alone; the population that replaces the current one has
\* exactly population_size members and its first two are the first two of
\* the ranked current population.
ElitismAndPopulationSize ==
    [][population_size >= 2 =>
         /\ (pc = "loop" /\ pc' = "breed") =>
               /\ RankedDescending(population', evaluator)
               /\ new_population' = <<population'[1], population'[2]>>
         /\ (pc = "breed" /\ pc' = "breed") =>
               /\ Len(new_population') = Len(new_population) + 1
               /\ SubSeq(new_population', 1, Len(new_population)) = new_population
               /\ mutation_rate' = mutation_rate /\ population' = population
               /\ LET member == new_population'[Len(new_population')]
                  IN  \/ MutatedCrossoverChild(member, population, evaluator,
                                               mutation_rate)
                      \/ MutatedFreshMelody(member, length, mutation_rate)
         /\ (pc = "breed" /\ pc' \in {"loop", "stopped"}) =>
               /\ Len(population') = population_size
               /\ population'[1] = population[1] /\ population'[2] = population[2]
               /\ RankedDescending(population, evaluator)
               /\ \A i \in 3..population_size : population'[i] = new_population[i]
      ]_vars

\* a generation after the first has replaced a population of four by the two
\* best and two bred members, one of them not a member before
ElitismWitness ==
    /\ pc = "loop" /\ gen >= 2 /\ evaluator = "multi"
    /\ population_size = 4 /\ Len(population) = 4
    /\ new_population = population
    /\ population[3] # population[4]

\* the greatest score in pop
TopScore(pop, ev) ==
    CHOOSE v \in {Fitness(ev, pop[i]) : i \in 1..Len(pop)} :
        \A i \in 1..Len(pop) : Fitness(ev, pop[i]) <= v

\* this step is the ranking of one generation
Ranks == pc = "loop" /\ pc' = "breed"

\* C22: the ranking step of a generation compares the greatest score of the
\* population with best_fitness: if it is strictly greater (or best_fitness
\* is still minus infinity) the stagnation counter becomes 0 and best_fitness
\* that score, otherwise best_fitness stays and the counter grows by exactly
\* 1; no other step of a generation changes either; the first generation
\* resets the counter, and in generation index g the counter is in 0..g.
StagnationCounter ==
    [][/\ Ranks =>
            LET top == TopScore(population, evaluator)
            IN  /\ current_best_fitness' = top
                /\ IF best_fitness = NEG_INF \/ top > ScoreOf(best_fitness)
                   THEN /\ generations_without_improvement' = 0
                        /\ best_fitness' = <<top>>
                   ELSE /\ generations_without_improvement'
                               = generations_without_improvement + 1
                        /\ best_fitness' = best_fitness
                /\ gen = 0 => generations_without_improvement' = 0
                /\ generations_without_improvement' \in 0..gen
       /\ (pc \in {"loop", "breed", "stopped"} /\ ~Ranks) =>
            UNCHANGED <<generations_without_improvement, best_fitness>>
      ]_vars

\* the second generation improved on the first and the third only equalled it
StagnationWitness ==
    /\ pc = "breed" /\ evaluator = "multi" /\ gen = 2
    /\ generations_without_improvement = 1
    /\ ScoreOf(best_fitness) = current_best_fitness

\* C23 as stated: whatever base rate the caller supplies, the rate applied
\* to the children of a generation lies within [0.1, 0.5].
RateWithinFloorAndCeiling ==
    pc = "breed" => RATE_FLOOR <= mutation_rate /\ mutation_rate <= RATE_CEILING

\* C23 (amended): the ranking step of every generation sets the rate to
\* min(0.5, rate * 1.1) when the stagnation counter is above 20 and to
\* max(0.1, rate * 0.9) otherwise, and no other step of a generation changes
\* it; the rate applied to children is never below 0.1; it is at most 0.5
\* once it was at most 0.5, and a base rate above 0.5 only ever goes down;
\* it increases only when the counter is above 20 or the rate was below 0.1.
RateAdaptation ==
    [][/\ Ranks =>
            /\ mutation_rate' =
                  IF generations_without_improvement' > ADAPT_THRESHOLD
                  THEN Min2(RATE_CEILING, (mutation_rate * 11) \div 10)
                  ELSE Max2(RATE_FLOOR, (mutation_rate * 9) \div 10)
            /\ mutation_rate' >= RATE_FLOOR
            /\ mutation_rate <= RATE_CEILING => mutation_rate' <= RATE_CEILING
            /\ mutation_rate > RATE_CEILING => mutation_rate' < mutation_rate
            /\ mutation_rate' > mutation_rate =>
                  \/ generations_without_improvement' > ADAPT_THRESHOLD
                  \/ mutation_rate < RATE_FLOOR
       /\ (pc \in {"loop", "breed", "stopped"} /\ ~Ranks) => UNCHANGED mutation_rate
      ]_vars

\* a long stagnation has driven the rate from the floor up to the ceiling
RateAtCeilingWitness ==
    /\ pc = "breed" /\ generations_without_improvement > ADAPT_THRESHOLD
    /\ mutation_rate = RATE_CEILING /\ population_size > ELITE_COUNT

\* C24: a run that finishes, by budget or by early stop, returns a member of
\* the population it ended with: the one built in the last generation, or
\* the initial one when no generation ran; no member of that population,
\* scored at return time, scores more than the melody returned.  The step
\* that returns leaves the population as it found it.
ResultIsBestOfFinalPopulation ==
    /\ [](pc = "done" =>
            /\ \E i \in 1..Len(population) : result = population[i]
            /\ \A i \in 1..Len(population) :
                   Fitness(evaluator, result) >= Fitness(evaluator, population[i])
            /\ Len(population) = population_size
            /\ gen >= 1 => population = new_population
            /\ gen = 0 => generations = 0 /\ new_population = <<>>
            /\ gen = generations \/ EarlyStop(generations_without_improvement))
    /\ [][pc' = "done" => population' = population /\ pc # "done"]_vars

\* the run returned a bred member that outscores the elite carried over, the
\* order of the last population being stale
ResultWitness ==
    /\ pc = "done" /\ evaluator = "multi" /\ gen >= 1
    /\ result # population[1]
    /\ Fitness(evaluator, result) > Fitness(evaluator, population[1])

\* the run is over: it returned or an exception left create_melody
RunOver == pc \in {"done", "raised"}

\* C25: a run with length >= 2 and population_size >= 1 executes at most
\* `generations` generations, never holds more than max(2, population_size)
\* members in the population being built, and is over only by returning,
\* either after a generation whose stagnation counter exceeds 100 or after
\* `generations` generations.
EndsByBudgetOrEarlyStop ==
    (length >= 2 /\ population_size >= 1) =>
        /\ gen <= generations
        /\ Len(new_population) <= Max2(ELITE_COUNT, population_size)
        /\ RunOver =>
              /\ pc = "done"
              /\ gen = generations \/ EarlyStop(generations_without_improvement)

RECURSIVE WithScore(_, _, _)
\* the members of pop that score v, in the order they have in pop
WithScore(pop, ev, v) ==
    IF pop = <<>> THEN <<>>
    ELSE IF Fitness(ev, Head(pop)) = v
         THEN <<Head(pop)>> \o WithScore(Tail(pop), ev, v)
         ELSE WithScore(Tail(pop), ev, v)

\* after is before in descending order of score, ties in the order of before
StablyRanked(before, after, ev) ==
    /\ Len(after) = Len(before)
    /\ RankedDescending(after, ev)
    /\ \A i \in 1..Len(before) :
           LET v == Fitness(ev, before[i])
           IN  WithScore(after, ev, v) = WithScore(before, ev, v)

\* the most draws one step of a run makes
MostDraws == length * population_size + 2 + 2 * TOURNAMENT_SIZE + 2 * length

\* the trail so far is how the earlier run began
SameSoFar ==
    /\ Len(trail) <= Len(first.trail)
    /\ \A g \in 1..Len(trail) : trail[g] = first.trail[g]

Window(melody, i, k) == SubSeq(melody, i + 1, i + k)

\* the consecutive differences of a window
Signature(w) == [k \in 1..(Len(w) - 1) |-> w[k + 1] - w[k]]

\* pairs of 4-note windows that do not overlap and have the same signature,
\* every window up to the last one, at n - 4, taken into account
RepeatedMotifs(melody) ==
    LET n == Len(melody)
    IN  {ij \in (0..n) \X (0..n) :
            /\ ij[1] + MOTIF_LENGTH <= ij[2] /\ ij[2] <= n - MOTIF_LENGTH
            /\ Signature(Window(melody, ij[1], MOTIF_LENGTH))
                 = Signature(Window(melody, ij[2], MOTIF_LENGTH))}

\* a 4-note motif followed by the same motif or a transposition of it
MotifTwice(melody) ==
    /\ Len(melody) = 2 * MOTIF_LENGTH
    /\ Signature(Window(melody, 0, MOTIF_LENGTH))
         = Signature(Window(melody, MOTIF_LENGTH, MOTIF_LENGTH))

\* C27: for every melody of 8 notes or more the phrasing sub-score is
\* min(20, 5 + 3 * number of pairs of non-overlapping 4-note windows with the
\* same interval signature), the last window included; a motif followed by
\* itself scores more than the 5 points of the balanced halves.
PhrasingCountsEveryWindow ==
    (Ended("evaluate") /\ opState = "returned" /\ Len(argA) >= 2 * MOTIF_LENGTH) =>
        /\ outScores[4] =
              Min2(SUBSCORE_CAP, 50 + 30 * Cardinality(RepeatedMotifs(argA)))
        /\ MotifTwice(argA) => outScores[4] > 50

\* the absolute differences of a window are the leading entries of pattern
MatchesLeading(w, pattern) ==
    /\ Len(w) = Len(pattern)
    /\ \A k \in 1..(Len(w) - 1) : Abs(w[k + 1] - w[k]) = pattern[k]

\* pattern and start index of every matching window, the one ending at the
\* last note included
MatchingWindows(melody) ==
    LET n == Len(melody)
    IN  {pi \in (1..Len(RHYTHMIC_PATTERNS)) \X (0..n) :
            /\ pi[2] <= n - Len(RHYTHMIC_PATTERNS[pi[1]])
            /\ MatchesLeading(Window(melody, pi[2], Len(RHYTHMIC_PATTERNS[pi[1]])),
                              RHYTHMIC_PATTERNS[pi[1]])}

\* the odd indices i < n - 1 (0-based) whose note differs from both neighbours
Syncopated(melody) ==
    {i \in 0..(Len(melody) - 2) :
        /\ i % 2 = 1
        /\ melody[i + 1] # melody[i] /\ melody[i + 1] # melody[i + 2]}

\* C28: the rhythm sub-score of a melody is min(20, 5 * M + 2 * S), M the
\* number of matching windows over all reference patterns, the window ending
\* at the last note included, and S the number of syncopated odd indices.
RhythmCountsEveryWindow ==
    (Ended("evaluate") /\ opState = "returned") =>
        outScores[2] =
            Min2(SUBSCORE_CAP, 50 * Cardinality(MatchingWindows(argA))
                                 + 20 * Cardinality(Syncopated(argA)))

(***************************************************************************)
(* Properties that follow from elitism and the early stop (Spec)           *)
(***************************************************************************)
\* C29: with population_size >= 1 the greatest score found by the ranking of
\* every generation after the first is at least the best score recorded so
\* far, and the melody returned scores at least the best score recorded in
\* any generation of the run.
ElitismKeepsBest ==
    /\ [](population_size >= 1 /\ pc = "done" /\ best_fitness # NEG_INF =>
            Fitness(evaluator, result) >= ScoreOf(best_fitness))
    /\ [][population_size >= 1 /\ Ranks /\ gen >= 1 =>
            /\ best_fitness # NEG_INF
            /\ current_best_fitness' >= ScoreOf(best_fitness)
            /\ \E i \in 1..Len(population) :
                   Fitness(evaluator, population[i]) >= ScoreOf(best_fitness)
         ]_vars

\* after several generations the run returned a child of the last generation
\* that beats the best score recorded
KeepsBestWitness ==
    /\ pc = "done" /\ evaluator = "multi" /\ gen >= 2
    /\ population_size > ELITE_COUNT
    /\ best_fitness # NEG_INF
    /\ Fitness(evaluator, result) > ScoreOf(best_fitness)

\* the budget does not reach past generation index STAGNATION_LIMIT
SmallBudget == generations <= STAGNATION_LIMIT + 1

\* C30: the stagnation counter is 0 in generation 0, grows by at most 1 from
\* one generation to the next and never exceeds the index of the generation,
\* so a run stops early in generation index 101 (its 102nd generation) at the
\* soonest; a run with a budget of at most 101 generations, main's 100
\* included, never stops early, and when it returns it has executed exactly
\* the budgeted number of generations.
EarlyStopUnreachableUnderSmallBudgets ==
    /\ [](/\ pc = "breed" => generations_without_improvement <= gen
          /\ (pc = "breed" /\ gen = 0) => generations_without_improvement = 0
          /\ pc = "stopped" => gen >= STAGNATION_LIMIT + 2
          /\ SmallBudget => /\ pc # "stopped"
                            /\ gen <= generations
                            /\ pc = "done" => gen = generations)
    /\ [][generations_without_improvement' <= generations_without_improvement + 1
         ]_vars

\* a run with a budget of 101 used it up under a scorer that never improves:
\* its last generation ended with the counter at the limit, not above it
SmallBudgetWitness ==
    /\ pc = "done" /\ evaluator = "const"
    /\ generations = STAGNATION_LIMIT + 1 /\ gen = generations
    /\ generations_without_improvement = STAGNATION_LIMIT
    /\ population_size > ELITE_COUNT

====
